---- MODULE Spec2Model ----
(***************************************************************************)
(* EmoHeal front end (Dopamine-mania/qm_final_v7).                         *)
(*                                                                         *)
(* Two independent client-side state machines are modelled:                *)
(*   - StudyFlowManager, the experiment flow controller: step order,       *)
(*     form handling, localStorage persistence, export and reset;          *)
(*   - the therapy sequencer of frontend/study_flow.js: session creation,  *)
(*     the polling interval, handleState, the stage cards and the timers   *)
(*     that drive the animations.                                          *)
(* StudySpec runs the first machine, Spec the second.                      *)
(*                                                                         *)
(* Representation notes.  JavaScript objects are records with a fixed set  *)
(* of fields; a property that is absent holds the string "undefined", so   *)
(* the empty object {} is the record whose fields are all "undefined".     *)
(* JSON.stringify drops undefined properties and JSON.parse restores the   *)
(* rest, so on this representation the localStorage round trip keeps a     *)
(* record as it is.  A missing localStorage item is the empty set, a       *)
(* present one a singleton.  Timestamps are the abstract value "ts".       *)
(***************************************************************************)
EXTENDS Integers, Sequences, FiniteSets, TLC

\* ------------------------------------------------------------------ bounds
\* sessions generateSessionId may hand out (page loads and resets)
MaxSessions == 5
\* consent checkboxes on the consent form
MaxConsentBoxes == 2

\* ------------------------------------------------------- StudyFlowManager
VARIABLES
    lsStudyStep,        \* localStorage 'qmul_study_step': {} or {step}
    lsParticipantData,  \* localStorage 'qmul_participant_data': {} or {record}
    currentStep,        \* studyFlow.currentStep
    participantData,    \* studyFlow.participantData
    page,               \* the HTML page the browser shows
    alertShown,         \* the alert the last handler run showed, or "none"
    sessionSeq,         \* number of session ids generated so far
    submitTimer,        \* the setTimeout of saveFormData('questionnaire')
    lastSubmitted,      \* body the last handler run POSTed to /submit: {} or {payload}
    lastDownloaded,     \* file the last handler run downloaded: {} or {payload}
    lastOp,             \* history: the handler that ran last, with its input
    visited,            \* history: the values currentStep took, in order,
                        \* while the run is ordered (empty afterwards)
    ordered,            \* history: only one-step advances so far
    formDriven          \* history: no form step was left by a navigation

studyVars == << lsStudyStep, lsParticipantData, currentStep, participantData,
                page, alertShown, sessionSeq, submitTimer, lastSubmitted,
                lastDownloaded, lastOp, visited, ordered, formDriven >>

UNDEF == "undefined"
TS == "ts"

\* a stepOrder with the consent step before the participant-info step
stepOrderConsentFirst == << "portal", "consent_form", "participant_info",
                            "therapy", "questionnaire", "thank_you" >>

\* canProceedToStep / updateProgressIndicators: stepOrder
stepOrder == << "portal", "participant_info", "consent_form", "therapy",
                "questionnaire", "thank_you" >>

StepNames == { stepOrder[i] : i \in 1..Len(stepOrder) }

\* a data-navigate-to value that is not a step name
UnknownStep == "settings"

NavTargets == StepNames \cup {UnknownStep}

\* Array.prototype.indexOf on stepOrder: 0-based position, -1 when absent
IndexOf(step) ==
    IF step \in StepNames
    THEN (CHOOSE i \in 1..Len(stepOrder) : stepOrder[i] = step) - 1
    ELSE -1

\* navigateToPage: pageMap; "" when the step has no page
pageMap(step) ==
    CASE step = "portal" -> "experiment_portal.html"
      [] step = "participant_info" -> "participant_info.html"
      [] step = "consent_form" -> "consent_form.html"
      [] step = "therapy" -> "therapy_interface_bilingual.html?from=experiment"
      [] step = "questionnaire" -> "questionnaire.html"
      [] step = "thank_you" -> "thank_you.html"
      [] OTHER -> ""

Pages == { pageMap(s) : s \in StepNames }

\* a stepMap whose consent form leads back to the participant form
getNextStepBackwards(formType) ==
    CASE formType = "participant_info" -> "consent_form"
      [] formType = "consent" -> "participant_info"
      [] formType = "questionnaire" -> "thank_you"
      [] OTHER -> ""

\* getNextStep: stepMap; "" for a form type that has no entry
getNextStep(formType) ==
    CASE formType = "participant_info" -> "consent_form"
      [] formType = "consent" -> "therapy"
      [] formType = "questionnaire" -> "thank_you"
      [] OTHER -> ""

\* ------------------------------------------------------------------ forms
FormTypes == {"participant_info", "consent", "questionnaire"}

\* the page whose <form data-study-form> has the given type
FormPage(formType) ==
    CASE formType = "participant_info" -> "participant_info.html"
      [] formType = "consent" -> "consent_form.html"
      [] formType = "questionnaire" -> "questionnaire.html"

\* what a text field can hold: empty, blank, or an answer
FieldValues == {"", " ", "a"}

\* the participantInfo fields prepareExportData keeps
ExportedInfoFields == {"ageGroup", "gender", "digitalHealthExperience"}

\* the named fields of each form; "email" stands for any field of the
\* participant form that prepareExportData does not list
FormFields(formType) ==
    CASE formType = "participant_info" -> ExportedInfoFields \cup {"email"}
      [] formType = "consent" -> {"signature"}
      [] formType = "questionnaire" -> {"q1"}

\* the fields carrying the required attribute
RequiredFields(formType) ==
    CASE formType = "participant_info" -> ExportedInfoFields
      [] formType = "consent" -> {"signature"}
      [] formType = "questionnaire" -> {"q1"}

ConsentBoxes == 1..MaxConsentBoxes

\* a submitted form: its type, its field values, its consent checkboxes
Forms ==
    UNION { [ type : {t},
              values : [FormFields(t) -> FieldValues],
              checked : IF t = "consent" THEN [ConsentBoxes -> BOOLEAN]
                        ELSE {[b \in ConsentBoxes |-> FALSE]} ]
            : t \in FormTypes }

\* String.prototype.trim on the field values
Trim(v) == IF v = " " THEN "" ELSE v

\* a validateForm without the special validation of the consent form
validateFormWithoutConsentCheck(form) ==
    \A f \in RequiredFields(form.type) : Trim(form.values[f]) # ""

\* validateForm
validateForm(form) ==
    /\ \A f \in RequiredFields(form.type) : Trim(form.values[f]) # ""
    /\ form.type = "consent" => \A b \in ConsentBoxes : form.checked[b]

\* collectFormData: FormData lists every named field and every checked box
collectFormData(form) ==
    [ values |-> form.values,
      boxes |-> [b \in ConsentBoxes |-> IF form.checked[b] THEN "on" ELSE UNDEF] ]

EmptyInfo == [f \in FormFields("participant_info") |-> UNDEF]
EmptyConsent == [ values |-> [f \in FormFields("consent") |-> UNDEF],
                  boxes |-> [b \in ConsentBoxes |-> UNDEF],
                  timestamp |-> UNDEF ]
EmptyTherapy == [ completed |-> UNDEF, timestamp |-> UNDEF, sessionId |-> 0 ]
EmptyQuestionnaire == [ values |-> [f \in FormFields("questionnaire") |-> UNDEF],
                        timestamp |-> UNDEF ]

\* loadParticipantData, the record built when the item is missing
FreshData(id) ==
    [ sessionId |-> id, startTime |-> TS, endTime |-> UNDEF,
      participantInfo |-> EmptyInfo, consentData |-> EmptyConsent,
      therapyData |-> EmptyTherapy, questionnaireData |-> EmptyQuestionnaire,
      completed |-> FALSE ]

\* loadParticipantData
loadParticipantData(item, id) ==
    IF item # {} THEN CHOOSE d \in item : TRUE ELSE FreshData(id)

\* getCurrentStep
getCurrentStep(item) ==
    IF item # {} THEN CHOOSE s \in item : TRUE ELSE "portal"

\* saveFormData, the participantData it leaves
saveFormData(data, formType, formData) ==
    CASE formType = "participant_info" ->
            [data EXCEPT !.participantInfo = formData.values]
      [] formType = "consent" ->
            [data EXCEPT !.consentData =
                [ values |-> formData.values, boxes |-> formData.boxes,
                  timestamp |-> TS ]]
      [] formType = "questionnaire" ->
            [data EXCEPT !.questionnaireData =
                            [ values |-> formData.values, timestamp |-> TS ],
                         !.completed = TRUE,
                         !.endTime = TS]
      [] OTHER -> data

\* canProceedToStep
canProceedToStep(cur, targetStep) ==
    IndexOf(targetStep) <= IndexOf(cur) + 1

\* a prepareExportData that exports participantInfo as it is
prepareExportDataWholeInfo(data) ==
    [ sessionId |-> data.sessionId,
      startTime |-> data.startTime,
      endTime |-> data.endTime,
      completed |-> data.completed,
      participantInfo |-> data.participantInfo,
      consentGiven |-> data.consentData.timestamp # UNDEF,
      consentTimestamp |-> data.consentData.timestamp,
      therapyCompleted |-> data.therapyData.completed # UNDEF,
      therapyTimestamp |-> data.therapyData.timestamp,
      questionnaireData |-> data.questionnaireData,
      studyVersion |-> "v1.0",
      browserInfo |-> [ userAgent |-> "ua", language |-> "lang",
                        platform |-> "platform" ] ]

\* prepareExportData
prepareExportData(data) ==
    [ sessionId |-> data.sessionId,
      startTime |-> data.startTime,
      endTime |-> data.endTime,
      completed |-> data.completed,
      participantInfo |->
          [ ageGroup |-> data.participantInfo["ageGroup"],
            gender |-> data.participantInfo["gender"],
            digitalHealthExperience |->
                data.participantInfo["digitalHealthExperience"] ],
      consentGiven |-> data.consentData.timestamp # UNDEF,
      consentTimestamp |-> data.consentData.timestamp,
      therapyCompleted |-> data.therapyData.completed # UNDEF,
      therapyTimestamp |-> data.therapyData.timestamp,
      questionnaireData |-> data.questionnaireData,
      studyVersion |-> "v1.0",
      browserInfo |-> [ userAgent |-> "ua", language |-> "lang",
                        platform |-> "platform" ] ]

\* the history record of a handler run: the handler, its argument, for a
\* form whether every required field is non-blank and every consent box is
\* checked, the target of the proceedToStep call it made ("" when none) and
\* that call's result (for the other handlers: the answer they were given)
Op(op, arg, filled, checked, target, ok) ==
    [ op |-> op, arg |-> arg, filled |-> filled, checked |-> checked,
      target |-> target, ok |-> ok ]

\* every field carrying the required attribute holds a non-blank value
RequiredFilled(form) ==
    \A f \in RequiredFields(form.type) : form.values[f] \notin {"", " "}

\* every consent checkbox of the form is checked
AllChecked(form) == \A b \in ConsentBoxes : form.checked[b]

\* the steps whose page holds a form
FormSteps == {"participant_info", "consent_form", "questionnaire"}

\* history: currentStep's values in order, kept while the run is ordered
Visit(seq, step, stillOrdered) ==
    IF ~stillOrdered THEN << >>
    ELSE IF seq[Len(seq)] # step THEN Append(seq, step) ELSE seq

\* the constructor, run by every page load: getCurrentStep and
\* loadParticipantData on what localStorage holds
PageLoad(newPage, stepItem, dataItem) ==
    /\ dataItem = {} => sessionSeq < MaxSessions
    /\ page' = newPage
    /\ currentStep' = getCurrentStep(stepItem)
    /\ participantData' = loadParticipantData(dataItem, sessionSeq + 1)
    /\ sessionSeq' = IF dataItem = {} THEN sessionSeq + 1 ELSE sessionSeq
    /\ alertShown' = "none"

\* proceedToStep(targetStep) on the in-memory record data, with dataItem in
\* localStorage; navigateToPage loads the step's page when it has one
proceedToStep(targetStep, data, dataItem) ==
    IF ~canProceedToStep(currentStep, targetStep)
    THEN /\ alertShown' = "complete_all_steps_in_order"
         /\ participantData' = data
         /\ UNCHANGED << currentStep, lsStudyStep, page, sessionSeq >>
    ELSE /\ lsStudyStep' = {targetStep}
         /\ IF pageMap(targetStep) # ""
            THEN PageLoad(pageMap(targetStep), {targetStep}, dataItem)
            ELSE /\ currentStep' = targetStep
                 /\ participantData' = data
                 /\ alertShown' = "none"
                 /\ UNCHANGED << page, sessionSeq >>

\* a handler run that sends nothing to the server and downloads nothing
NoOutput == lastSubmitted' = {} /\ lastDownloaded' = {}

\* a proceedToStep call that moves at most one step forward
OneStep(cur, targetStep) ==
    /\ targetStep \in StepNames
    /\ IndexOf(targetStep) \in {IndexOf(cur), IndexOf(cur) + 1}

\* handleNavigation: a click on a [data-navigate-to] button
HandleNavigation(targetStep) ==
    LET ok == canProceedToStep(currentStep, targetStep) IN
    /\ proceedToStep(targetStep, participantData, lsParticipantData)
    /\ lastOp' = Op("navigate", "", FALSE, FALSE, targetStep, ok)
    /\ ordered' = (ordered /\ (ok => OneStep(currentStep, targetStep)))
    /\ formDriven' = (formDriven /\
                        (currentStep \in FormSteps => currentStep' = currentStep))
    /\ visited' = Visit(visited, currentStep', ordered')
    /\ submitTimer' = IF page' # page THEN "none" ELSE submitTimer
    /\ NoOutput
    /\ UNCHANGED lsParticipantData

\* handleFormSubmission: the submit event of the form on the current page
HandleFormSubmission(form) ==
    /\ page = FormPage(form.type)
    /\ IF ~validateForm(form)
       THEN /\ alertShown' = IF form.type = "consent"
                                 /\ \E b \in ConsentBoxes : ~form.checked[b]
                              THEN "agree_to_all_terms" ELSE "none"
            /\ lastOp' = Op("submit", form.type, RequiredFilled(form),
                             AllChecked(form), "", FALSE)
            /\ UNCHANGED << lsStudyStep, lsParticipantData, currentStep,
                            participantData, page, sessionSeq, submitTimer,
                            visited, ordered, formDriven >>
            /\ NoOutput
       ELSE LET data == saveFormData(participantData, form.type,
                                     collectFormData(form))
                nextStep == getNextStep(form.type)
                ok == canProceedToStep(currentStep, nextStep)
            IN  /\ lsParticipantData' = {data}
                /\ proceedToStep(nextStep, data, {data})
                /\ lastOp' = Op("submit", form.type, RequiredFilled(form),
                                 AllChecked(form), nextStep, ok)
                /\ ordered' = ordered
                /\ formDriven' = formDriven
                /\ visited' = Visit(visited, currentStep', ordered')
                \* the 1000 ms timer of the questionnaire case: armed, and
                \* lost when the page unloads before it fires
                /\ \/ submitTimer' = IF form.type = "questionnaire"
                                      THEN "pending"
                                      ELSE IF page' # page THEN "none"
                                      ELSE submitTimer
                   \/ /\ form.type = "questionnaire"
                      /\ page' # page
                      /\ submitTimer' = "none"
                /\ NoOutput

\* markTherapyComplete -> integrateWithTherapySystem, called by the
\* therapy interface
IntegrateWithTherapySystem ==
    LET data == [participantData EXCEPT !.therapyData =
                    [ completed |-> "true", timestamp |-> TS,
                      sessionId |-> participantData.sessionId ]]
    IN  /\ page = pageMap("therapy")
        /\ participantData' = data
        /\ lsParticipantData' = {data}
        /\ currentStep' = "questionnaire"
        /\ lsStudyStep' = {"questionnaire"}
        /\ lastOp' = Op("therapy_complete", "", FALSE, FALSE, "", FALSE)
        /\ ordered' = ordered
        /\ visited' = Visit(visited, currentStep', ordered')
        /\ alertShown' = "none"
        /\ NoOutput
        /\ UNCHANGED << page, sessionSeq, submitTimer, formDriven >>

\* submitDataToServer: the POST body, and the alert for the outcome
submitDataToServer(responseOk) ==
    /\ lastSubmitted' = {prepareExportData(participantData)}
    /\ alertShown' = IF responseOk THEN "data_submitted" ELSE "server_unavailable"

\* exportData -> exportParticipantData: the download, then the submit
ExportParticipantData(responseOk) ==
    /\ lastDownloaded' = {prepareExportData(participantData)}
    /\ submitDataToServer(responseOk)
    /\ lastOp' = Op("export", "", FALSE, FALSE, "", responseOk)
    /\ UNCHANGED << lsStudyStep, lsParticipantData, currentStep,
                    participantData, page, sessionSeq, submitTimer, visited,
                    ordered, formDriven >>

\* the timer of saveFormData('questionnaire') fires
AutoSubmit(responseOk) ==
    /\ submitTimer = "pending"
    /\ submitTimer' = "none"
    /\ submitDataToServer(responseOk)
    /\ lastOp' = Op("auto_submit", "", FALSE, FALSE, "", responseOk)
    /\ UNCHANGED << lsStudyStep, lsParticipantData, currentStep,
                    participantData, page, sessionSeq, visited, ordered,
                    formDriven >>
    /\ lastDownloaded' = {}

\* a resetStudy that leaves 'qmul_participant_data' in place
removeStudyItemsStepOnly ==
    /\ lsStudyStep' = {}
    /\ lsParticipantData' = lsParticipantData

\* StudyFlowManager.resetStudy: the two localStorage.removeItem calls
removeStudyItems ==
    /\ lsStudyStep' = {}
    /\ lsParticipantData' = {}

\* the global resetStudy(): confirm, StudyFlowManager.resetStudy, then the
\* portal page is loaded
ResetStudy(confirmed) ==
    IF ~confirmed
    THEN /\ lastOp' = Op("reset", "", FALSE, FALSE, "", FALSE)
         /\ UNCHANGED << lsStudyStep, lsParticipantData, currentStep,
                         participantData, page, sessionSeq, submitTimer,
                         visited, ordered, formDriven >>
         /\ alertShown' = "none"
         /\ NoOutput
    ELSE /\ sessionSeq + 1 < MaxSessions
         /\ removeStudyItems
         \* resetStudy: currentStep = 'portal', participantData =
         \* loadParticipantData() (one session id); then the page load
         /\ page' = pageMap("portal")
         /\ currentStep' = getCurrentStep(lsStudyStep')
         /\ participantData' = loadParticipantData(lsParticipantData',
                                                    sessionSeq + 2)
         /\ sessionSeq' = sessionSeq + 2
         /\ alertShown' = "none"
         /\ submitTimer' = "none"
         /\ lastOp' = Op("reset", IF lsParticipantData # {} THEN "had_data"
                                   ELSE "no_data", FALSE, FALSE, "", TRUE)
         /\ visited' = << "portal" >>
         /\ ordered' = TRUE
         /\ formDriven' = TRUE
         /\ NoOutput

\* the participant opens a page of the study by its address (or goes back)
OpenPage(newPage) ==
    /\ newPage # page
    /\ PageLoad(newPage, lsStudyStep, lsParticipantData)
    /\ lastOp' = Op("open_page", "", FALSE, FALSE, "", FALSE)
    /\ ordered' = FALSE
    /\ formDriven' = FALSE
    /\ visited' = << >>
    /\ submitTimer' = "none"
    /\ NoOutput
    /\ UNCHANGED << lsStudyStep, lsParticipantData >>

StudyInit ==
    /\ lsStudyStep = {}
    /\ lsParticipantData = {}
    /\ currentStep = "portal"
    /\ participantData = FreshData(1)
    /\ page = pageMap("portal")
    /\ alertShown = "none"
    /\ sessionSeq = 1
    /\ submitTimer = "none"
    /\ lastSubmitted = {}
    /\ lastDownloaded = {}
    /\ lastOp = Op("init", "", FALSE, FALSE, "", FALSE)
    /\ visited = << "portal" >>
    /\ ordered = TRUE
    /\ formDriven = TRUE


\* ------------------------------------------- therapy sequencer (bounds)
\* sessions create_session may create
MaxTherapySessions == 1
\* requests that may be awaiting their response at once
MaxInFlight == 2
\* session_status requests issued in one run
MaxPolls == 3

\* ------------------------------------ therapy sequencer: frontend/study_flow.js
VARIABLES
    sessionId,          \* let sessionId: 0 is null, n the n-th session's id
    pollingIntervalId,  \* let pollingIntervalId: 0 is null, 1 the id of the
                        \* interval startPolling created last
    currentStageId,     \* let currentStageId
    hiddenCards,        \* the stage cards that carry class d-none
    submitDisabled,     \* submitButton.disabled
    timers,             \* pending setTimeout/setInterval callbacks, in the
                        \* order they were armed, with the time left
    inflight,           \* fetch requests awaiting their response: how many
                        \* create_session ones, how many session_status
                        \* ones for each session id
    pollsIssued,        \* history: session_status requests issued so far
    tasksStatus,        \* backend: the progress of each session's task, as
                        \* of the last answer the backend gave about it
    kgTitle,            \* #kg-title innerText
    kgDetails,          \* the children of #kg-details, in order
    kgResult,           \* history: result.kgResult of the KG_COMPLETE handled last
    video,              \* #healing-video: "none", "playing" or "ended"
    epilogueTriggered,  \* let epilogueTriggered
    videoReadyHandled,  \* history: VIDEO_READY handled since the last submit
    lastEvent           \* history: the callback that ran last (a callback
                        \* that returns at once leaves no record)

seqVars == << sessionId, pollingIntervalId, currentStageId, hiddenCards,
              submitDisabled, timers, inflight, pollsIssued, tasksStatus, kgTitle,
              kgDetails, kgResult, video, epilogueTriggered,
              videoReadyHandled, lastEvent >>

\* ------------------------------- V13 sequencer: unnamed/part_003 (state)
VARIABLES
    v13_sessionId,          \* let sessionId: 0 is null/undefined
    v13_pollingIntervalId,  \* let pollingIntervalId: 0 is null, 1 the id of
                            \* the interval startPolling created last
    v13_currentStageId,     \* let currentStageId
    v13_submitButton,       \* submitButton: disabled, and its label
    v13_timers,             \* pending setTimeout/setInterval callbacks
    v13_inflight,           \* fetch requests awaiting their response
    v13_pollsIssued,        \* history: session_status requests issued
    v13_tasksStatus,        \* backend: the progress of each session's task
    v13_failed,             \* history: the sessions a polling tick failed for
    v13_lastEvent           \* history: the callback that ran last

v13Vars == << v13_sessionId, v13_pollingIntervalId, v13_currentStageId,
              v13_submitButton, v13_timers, v13_inflight, v13_pollsIssued,
              v13_tasksStatus, v13_failed, v13_lastEvent >>

\* ------------------------- i18n: AC/frontend_deploy/js/i18n.js (state)
VARIABLES
    currentLanguage,    \* let currentLanguage
    i18n_storage,       \* localStorage item 'emoheal-language'
    i18n_browserLang,   \* navigator.language of the page
    i18n_htmlLang,      \* document.documentElement.lang
    i18n_text,          \* textContent of the element data-i18n="app.subtitle"
    i18n_toggle,        \* textContent of .lang-current in #langToggle
    i18n_chosen,        \* history: the language current after the last
                        \* apply or toggle call of the page
    i18n_log            \* history: the last I18nLogLen calls

i18nVars == << currentLanguage, i18n_storage, i18n_browserLang, i18n_htmlLang,
               i18n_text, i18n_toggle, i18n_chosen, i18n_log >>

\* ------------------------------- throttle: AC/debug/REPAIR_SUMMARY.md (state)
VARIABLES
    inThrottle,         \* let inThrottle (undefined is FALSE)
    thr_timers,         \* pending setTimeout callbacks: ms until due,
                        \* negative when the callback is late
    thr_now,            \* ms since the listener was installed
    thr_lastRun,        \* history: when func ran last, -1 if never
    thr_runCount,       \* history: how often func ran
    thr_lastCall        \* history: the last call of the wrapper

throttleVars == << inThrottle, thr_timers, thr_now, thr_lastRun, thr_runCount,
                   thr_lastCall >>

vars == << studyVars, seqVars, v13Vars, i18nVars, throttleVars >>

\* what the steps of the therapy page leave alone
notSeqVars == << studyVars, v13Vars, i18nVars, throttleVars >>
\* what the steps of the study-flow pages leave alone
notStudyVars == << seqVars, v13Vars, i18nVars, throttleVars >>
\* what the steps of the V13 page leave alone
notV13Vars == << studyVars, seqVars, i18nVars, throttleVars >>
\* what the language calls leave alone
notI18nVars == << studyVars, seqVars, v13Vars, throttleVars >>
\* what the throttled listener leaves alone
notThrottleVars == << studyVars, seqVars, v13Vars, i18nVars >>

\* setInterval(..., 2000) in startPolling
PollInterval == 2000
\* the stage-one timeout of the AC_COMPLETE animation
AcStageOne == 3500
\* const SWEEP_DURATION
SWEEP_DURATION == 3000
\* setTimeout(startPolling, 13500) of KG_COMPLETE
KgResumeDelay == 13500
\* setTimeout(startPolling, 12500) of ISO_PRINCIPLE_READY
IsoResumeDelay == 12500
\* the three acts of the KG_COMPLETE animation
KgActOne == 500
KgActTwo == 4000
KgActThree == 10000
\* switchToStage: the fade-out and the fade-in timeouts
FadeOutDelay == 600
FadeInDelay == 50
\* startHealingEpilogue: the epilogue lasts 5 s
EpilogueDelay == 5000

\* const stages
StageIds == { "step-input", "step-emotion-analysis", "step-kg-result",
              "step-iso-principle", "step-video-player", "step-conclusion" }

\* the statuses of GET /api/session_status, by the progress of the task
\* (API contract V1.2); a query for an unknown session answers ERROR
StatusOfProgress(n) ==
    CASE n = 1 -> "AC_COMPLETE"
      [] n = 2 -> "KG_COMPLETE"
      [] n = 3 -> "ISO_PRINCIPLE_READY"
      [] n = 4 -> "VIDEO_READY"
      [] OTHER -> "PENDING"

\* the last status of the contract: the end of the flow
LastProgress == 4

\* backend: the progress of session sid after its background task went
\* through `steps` more statuses
Progress(sid, steps) ==
    IF tasksStatus[sid] + steps > LastProgress THEN LastProgress
    ELSE tasksStatus[sid] + steps

\* session_status(sid) of the backend, the task having gone through `steps`
\* more statuses since the last answer
session_status(sid, steps) ==
    IF sid \in 1..Len(tasksStatus) THEN StatusOfProgress(Progress(sid, steps))
    ELSE "ERROR"

\* the titles handleState writes into #kg-title during the KG animation
\* ('GEMS 映射原理', '知识图谱提取', '疗愈处方已生成')
TitleGems == "GEMS mapping principle"
TitleKgExtraction == "knowledge graph extraction"
TitlePrescription == "healing prescription generated"

\* result.kgResult of a KG_COMPLETE response: the one of the API contract
\* and of mockApi (three details), and another one
KgResults ==
    { [ title |-> TitlePrescription, details |-> << "theme", "tempo", "mode" >> ],
      [ title |-> "your prescription", details |-> << "tempo" >> ] }
NoKgResult == [ title |-> "", details |-> << >> ]

\* a pending timer: kind, time left, and what the callback closed over
Timer(k, r, cur, next, status) ==
    [ k |-> k, r |-> r, cur |-> cur, next |-> next, status |-> status ]

\* the history record of a callback run: its kind, the status it handled
\* or was started for, the session id it used
Event(ev, status, sid) == [ ev |-> ev, status |-> status, sid |-> sid ]

\* the sequence without its i-th element
RemoveAt(seq, i) ==
    [ j \in 1..(Len(seq) - 1) |-> IF j < i THEN seq[j] ELSE seq[j + 1] ]

\* the timers of a kind other than k, in order
RECURSIVE WithoutKind(_, _)
WithoutKind(seq, k) ==
    IF seq = << >> THEN << >>
    ELSE IF Head(seq).k = k THEN WithoutKind(Tail(seq), k)
    ELSE << Head(seq) >> \o WithoutKind(Tail(seq), k)

\* clearInterval(pollingIntervalId): stops the interval the id names
clearInterval(ts, id) ==
    IF id # 0 THEN WithoutKind(ts, "interval") ELSE ts

\* startPolling, the timers it leaves: the old interval cleared, a new one armed
startPolling(ts) ==
    Append(clearInterval(ts, pollingIntervalId),
           Timer("interval", PollInterval, "", "", ""))

\* switchToStage(nextStageId), the timer it arms: the fade-out timeout
\* closes over the current card and the next one
switchToStage(ts, nextStageId, status) ==
    Append(ts, Timer("fade_out", FadeOutDelay, currentStageId, nextStageId,
                     status))

\* resetUI: the cards it hides
resetUI_hidden == StageIds \ {"step-input"}

\* a handleState that takes the KG_COMPLETE and ISO_PRINCIPLE_READY stages
\* for one another
StageOfStatusSwapped(status) ==
    CASE status = "AC_COMPLETE" -> "step-emotion-analysis"
      [] status = "KG_COMPLETE" -> "step-iso-principle"
      [] status = "ISO_PRINCIPLE_READY" -> "step-kg-result"
      [] status = "VIDEO_READY" -> "step-video-player"

\* the stage handleState switches to for a status
StageOfStatus(status) ==
    CASE status = "AC_COMPLETE" -> "step-emotion-analysis"
      [] status = "KG_COMPLETE" -> "step-kg-result"
      [] status = "ISO_PRINCIPLE_READY" -> "step-iso-principle"
      [] status = "VIDEO_READY" -> "step-video-player"

AnimatedStatuses == {"AC_COMPLETE", "KG_COMPLETE", "ISO_PRINCIPLE_READY"}

\* a handleState that clears the interval before it looks at the status
handleState_timersClearFirst(status) ==
    LET cleared == clearInterval(timers, pollingIntervalId)
        switched == switchToStage(cleared, StageOfStatus(status), status)
    IN  CASE status = "AC_COMPLETE" ->
                Append(switched, Timer("ac_stage_two", AcStageOne, "", "", status))
          [] status = "KG_COMPLETE" ->
                switched \o
                << Timer("kg_act_one", KgActOne, "", "", status),
                   Timer("kg_act_two", KgActTwo, "", "", status),
                   Timer("kg_act_three", KgActThree, "", "", status),
                   Timer("resume", KgResumeDelay, "", "", status) >>
          [] status = "ISO_PRINCIPLE_READY" ->
                Append(switched, Timer("resume", IsoResumeDelay, "", "", status))
          [] status = "VIDEO_READY" -> switched
          [] OTHER -> cleared

\* handleState(data): what it does to the timers
handleState_timers(status) ==
    LET cleared == clearInterval(timers, pollingIntervalId)
        switched == switchToStage(cleared, StageOfStatus(status), status)
    IN  CASE status = "AC_COMPLETE" ->
                Append(switched, Timer("ac_stage_two", AcStageOne, "", "", status))
          [] status = "KG_COMPLETE" ->
                switched \o
                << Timer("kg_act_one", KgActOne, "", "", status),
                   Timer("kg_act_two", KgActTwo, "", "", status),
                   Timer("kg_act_three", KgActThree, "", "", status),
                   Timer("resume", KgResumeDelay, "", "", status) >>
          [] status = "ISO_PRINCIPLE_READY" ->
                Append(switched, Timer("resume", IsoResumeDelay, "", "", status))
          [] status = "VIDEO_READY" -> switched
          [] OTHER -> timers

\* handleState(data)
handleState(status, result) ==
    /\ timers' = handleState_timers(status)
    /\ kgTitle' = IF status = "KG_COMPLETE" THEN "" ELSE kgTitle
    /\ kgDetails' = IF status = "KG_COMPLETE" THEN << >> ELSE kgDetails
    /\ kgResult' = IF status = "KG_COMPLETE" THEN result ELSE kgResult
    /\ video' = IF status = "VIDEO_READY" THEN "playing" ELSE video
    /\ epilogueTriggered' = IF status = "VIDEO_READY" THEN FALSE
                            ELSE epilogueTriggered
    /\ videoReadyHandled' = (videoReadyHandled \/ status = "VIDEO_READY")
    /\ UNCHANGED << sessionId, pollingIntervalId, currentStageId, hiddenCards,
                    submitDisabled, pollsIssued >>

\* the session ids a session_status request can carry (0: null)
SessionIds == 0..MaxTherapySessions

\* no fetch awaits its response
NoRequests == [ create |-> 0, status |-> [ sid \in SessionIds |-> 0 ] ]

\* the number of fetches awaiting their response
RECURSIVE SumTo(_, _)
SumTo(f, n) == IF n < 0 THEN 0 ELSE f[n] + SumTo(f, n - 1)
InFlight == inflight.create + SumTo(inflight.status, MaxTherapySessions)

\* resetUI
resetUI ==
    /\ hiddenCards' = resetUI_hidden
    /\ currentStageId' = "step-input"
    /\ video' = "none"

\* submitButton click handler, up to the fetch of create_session
SubmitClick(text) ==
    /\ ~submitDisabled
    /\ IF text = ""
       THEN \* the alert, then return: nothing of the page changes
            UNCHANGED seqVars
       ELSE /\ InFlight < MaxInFlight
            /\ Len(tasksStatus) + inflight.create < MaxTherapySessions
            /\ submitDisabled' = TRUE
            /\ IF currentStageId # "step-input"
               THEN resetUI
               ELSE UNCHANGED << hiddenCards, currentStageId, video >>
            /\ inflight' = [ inflight EXCEPT !.create = @ + 1 ]
            /\ videoReadyHandled' = FALSE
            /\ lastEvent' = Event("submit", "", sessionId)
            /\ UNCHANGED << sessionId, pollingIntervalId, timers, tasksStatus,
                            pollsIssued, kgTitle, kgDetails, kgResult,
                            epilogueTriggered >>

\* submitButton click handler, after the awaits: the create_session response
\* carries a sessionId (the backend created the session) or none
CreateResponse(withSessionId) ==
    /\ inflight.create > 0
    /\ inflight' = [ inflight EXCEPT !.create = @ - 1 ]
    /\ IF withSessionId
       THEN /\ tasksStatus' = Append(tasksStatus, 0)
            /\ sessionId' = Len(tasksStatus) + 1
            /\ timers' = startPolling(timers)
            /\ pollingIntervalId' = 1
       ELSE /\ sessionId' = 0
            /\ UNCHANGED << tasksStatus, timers, pollingIntervalId >>
    /\ lastEvent' = Event("create_response", "", sessionId')
    /\ UNCHANGED << currentStageId, hiddenCards, submitDisabled, pollsIssued,
                    kgTitle, kgDetails, kgResult, video, epilogueTriggered,
                    videoReadyHandled >>

\* a fetch rejects (network error): the awaiting callback never continues
RequestFails(kind, sid) ==
    /\ IF kind = "create"
       THEN /\ inflight.create > 0
            /\ inflight' = [ inflight EXCEPT !.create = @ - 1 ]
       ELSE /\ inflight.status[sid] > 0
            /\ inflight' = [ inflight EXCEPT !.status[sid] = @ - 1 ]
    /\ lastEvent' = Event("request_failed", "", sid)
    /\ UNCHANGED << sessionId, pollingIntervalId, currentStageId, hiddenCards,
                    submitDisabled, timers, pollsIssued, tasksStatus, kgTitle,
                    kgDetails, kgResult, video, epilogueTriggered,
                    videoReadyHandled >>

\* the interval callback after its awaits: handleState(statusData)
StatusResponse(sid, steps, result) ==
    /\ inflight.status[sid] > 0
    /\ sid \notin 1..Len(tasksStatus) => steps = 0
    /\ result = NoKgResult <=> session_status(sid, steps) # "KG_COMPLETE"
    /\ inflight' = [ inflight EXCEPT !.status[sid] = @ - 1 ]
    /\ tasksStatus' = IF sid \in 1..Len(tasksStatus)
                      THEN [ tasksStatus EXCEPT ![sid] = Progress(sid, steps) ]
                      ELSE tasksStatus
    /\ handleState(session_status(sid, steps), result)
    /\ lastEvent' = Event("status_handled", session_status(sid, steps), sid)

\* the timers that are due, and the one the event loop runs first
Due == { i \in 1..Len(timers) : timers[i].r = 0 }
FirstDue == CHOOSE i \in Due : \A j \in Due : i <= j

\* the interval callback of startPolling, up to its fetch: a session_status
\* request for the sessionId of this moment
PollTick ==
    /\ Due # {}
    /\ timers[FirstDue].k = "interval"
    /\ InFlight < MaxInFlight
    /\ pollsIssued < MaxPolls
    /\ inflight' = [ inflight EXCEPT !.status[sessionId] = @ + 1 ]
    /\ pollsIssued' = pollsIssued + 1
    /\ timers' = Append(RemoveAt(timers, FirstDue),
                        Timer("interval", PollInterval, "", "", ""))
    /\ lastEvent' = Event("poll_request", "", sessionId)
    /\ UNCHANGED << sessionId, pollingIntervalId, currentStageId, hiddenCards,
                    submitDisabled, tasksStatus, kgTitle, kgDetails, kgResult,
                    video, epilogueTriggered, videoReadyHandled >>

\* a setTimeout callback runs
TimeoutFires ==
    /\ Due # {}
    /\ timers[FirstDue].k # "interval"
    /\ LET t == timers[FirstDue]
           rest == RemoveAt(timers, FirstDue)
       IN  /\ lastEvent' = Event(t.k, t.status, sessionId)
           /\ CASE t.k = "fade_out" ->
                    \* switchToStage, after the fade-out
                    /\ hiddenCards' = (hiddenCards \cup {t.cur}) \ {t.next}
                    /\ timers' = Append(rest, Timer("fade_in", FadeInDelay,
                                                    t.cur, t.next, t.status))
                    /\ UNCHANGED << currentStageId, pollingIntervalId, kgTitle,
                                    video, epilogueTriggered >>
                [] t.k = "fade_in" ->
                    /\ currentStageId' = t.next
                    /\ timers' = rest
                    /\ UNCHANGED << hiddenCards, pollingIntervalId, kgTitle,
                                    video, epilogueTriggered >>
                [] t.k = "ac_stage_two" ->
                    \* setTimeout(startPolling, SWEEP_DURATION + 5000)
                    /\ timers' = Append(rest, Timer("resume",
                                    SWEEP_DURATION + 5000, "", "", t.status))
                    /\ UNCHANGED << hiddenCards, currentStageId,
                                    pollingIntervalId, kgTitle, video,
                                    epilogueTriggered >>
                [] t.k \in {"kg_act_one", "kg_act_two", "kg_act_three"} ->
                    /\ kgTitle' = CASE t.k = "kg_act_one" -> TitleGems
                                    [] t.k = "kg_act_two" -> TitleKgExtraction
                                    [] t.k = "kg_act_three" -> TitlePrescription
                    /\ timers' = rest
                    /\ UNCHANGED << hiddenCards, currentStageId,
                                    pollingIntervalId, video, epilogueTriggered >>
                [] t.k = "resume" ->
                    /\ timers' = startPolling(rest)
                    /\ pollingIntervalId' = 1
                    /\ UNCHANGED << hiddenCards, currentStageId, kgTitle, video,
                                    epilogueTriggered >>
                [] t.k = "epilogue" ->
                    \* startHealingEpilogue, after the epilogue
                    /\ timers' = Append(rest, Timer("fade_out", FadeOutDelay,
                                        currentStageId, "step-conclusion", ""))
                    /\ epilogueTriggered' = FALSE
                    /\ video' = IF video = "playing" THEN "paused" ELSE video
                    /\ UNCHANGED << hiddenCards, currentStageId,
                                    pollingIntervalId, kgTitle >>
    /\ UNCHANGED << sessionId, submitDisabled, inflight, pollsIssued,
                    tasksStatus, kgDetails, kgResult, videoReadyHandled >>

\* time passes until the next timer is due
Advance ==
    /\ timers # << >>
    /\ Due = {}
    /\ LET d == CHOOSE d \in { timers[i].r : i \in 1..Len(timers) } :
                    \A i \in 1..Len(timers) : d <= timers[i].r
       IN  timers' = [ i \in 1..Len(timers) |->
                         [ timers[i] EXCEPT !.r = timers[i].r - d ] ]
    /\ lastEvent' = Event("time", "", sessionId)
    /\ UNCHANGED << sessionId, pollingIntervalId, currentStageId, hiddenCards,
                    submitDisabled, inflight, pollsIssued, tasksStatus, kgTitle,
                    kgDetails,
                    kgResult, video, epilogueTriggered, videoReadyHandled >>

\* restartButton click handler
RestartClick ==
    /\ resetUI
    /\ submitDisabled' = FALSE
    /\ timers' = clearInterval(timers, pollingIntervalId)
    /\ pollingIntervalId' = 0
    /\ sessionId' = 0
    /\ lastEvent' = Event("restart", "", 0)
    /\ UNCHANGED << inflight, pollsIssued, tasksStatus, kgTitle, kgDetails,
                    kgResult,
                    epilogueTriggered, videoReadyHandled >>

\* startHealingEpilogue, the timers it leaves
startHealingEpilogue(ts) ==
    IF epilogueTriggered THEN ts
    ELSE Append(ts, Timer("epilogue", EpilogueDelay, "", "", ""))

\* the video's 'timeupdate' event within the last 4 s of the video: the
\* startHealingEpilogue listener (a later update finds epilogueTriggered
\* set and returns at once)
VideoNearEnd ==
    /\ video = "playing"
    /\ ~epilogueTriggered
    /\ timers' = startHealingEpilogue(timers)
    /\ epilogueTriggered' = TRUE
    /\ lastEvent' = Event("video_near_end", "", sessionId)
    /\ UNCHANGED << sessionId, pollingIntervalId, currentStageId, hiddenCards,
                    submitDisabled, inflight, pollsIssued, tasksStatus, kgTitle,
                    kgDetails, kgResult, video, videoReadyHandled >>

\* the video's 'ended' event: the listener that switches to the conclusion
\* card, then the startHealingEpilogue listener
VideoEnded ==
    /\ video = "playing"
    /\ video' = "ended"
    /\ timers' = startHealingEpilogue(switchToStage(timers, "step-conclusion", ""))
    /\ epilogueTriggered' = TRUE
    /\ lastEvent' = Event("video_ended", "", sessionId)
    /\ UNCHANGED << sessionId, pollingIntervalId, currentStageId, hiddenCards,
                    submitDisabled, inflight, pollsIssued, tasksStatus, kgTitle,
                    kgDetails,
                    kgResult, videoReadyHandled >>

SeqInit ==
    /\ sessionId = 0
    /\ pollingIntervalId = 0
    /\ currentStageId = "step-input"
    /\ hiddenCards = resetUI_hidden
    /\ submitDisabled = FALSE
    /\ timers = << >>
    /\ inflight = NoRequests
    /\ pollsIssued = 0
    /\ tasksStatus = << >>
    /\ kgTitle = ""
    /\ kgDetails = << >>
    /\ kgResult = NoKgResult
    /\ video = "none"
    /\ epilogueTriggered = FALSE
    /\ videoReadyHandled = FALSE
    /\ lastEvent = Event("load", "", 0)

\* the steps of the therapy page
SeqNext ==
    \/ /\ UNCHANGED notSeqVars
       /\ \E text \in {"", "sad"} : SubmitClick(text)
    \/ /\ UNCHANGED notSeqVars
       /\ \E withSessionId \in BOOLEAN : CreateResponse(withSessionId)
    \/ /\ UNCHANGED notSeqVars
       /\ \E kind \in {"create", "status"}, sid \in SessionIds :
             RequestFails(kind, sid)
    \/ /\ UNCHANGED notSeqVars
       /\ \E sid \in SessionIds, steps \in 0..LastProgress,
             result \in KgResults \cup {NoKgResult} :
             StatusResponse(sid, steps, result)
    \/ /\ UNCHANGED notSeqVars
       /\ PollTick
    \/ /\ UNCHANGED notSeqVars
       /\ TimeoutFires
    \/ /\ UNCHANGED notSeqVars
       /\ Advance
    \/ /\ UNCHANGED notSeqVars
       /\ RestartClick
    \/ /\ UNCHANGED notSeqVars
       /\ VideoNearEnd
    \/ /\ UNCHANGED notSeqVars
       /\ VideoEnded

\* the steps of the study-flow pages
StudyNext ==
    \/ /\ UNCHANGED notStudyVars
       /\ \E targetStep \in NavTargets : HandleNavigation(targetStep)
    \/ /\ UNCHANGED notStudyVars
       /\ \E form \in Forms : HandleFormSubmission(form)
    \/ /\ UNCHANGED notStudyVars
       /\ IntegrateWithTherapySystem
    \/ /\ UNCHANGED notStudyVars
       /\ \E responseOk \in BOOLEAN : ExportParticipantData(responseOk)
    \/ /\ UNCHANGED notStudyVars
       /\ \E responseOk \in BOOLEAN : AutoSubmit(responseOk)
    \/ /\ UNCHANGED notStudyVars
       /\ \E confirmed \in BOOLEAN : ResetStudy(confirmed)
    \/ /\ UNCHANGED notStudyVars
       /\ \E newPage \in Pages : OpenPage(newPage)

\* ------------------------------------- V13 sequencer: unnamed/part_003
\* setInterval(..., 2000) in startPolling
V13PollInterval == 2000
\* handleState, AC_COMPLETE: the stage-one timeout, then the resume timeout
V13AcStageOne == 3500
V13AcResumeDelay == 4000
\* handleState, KG_COMPLETE: setTimeout(startPolling, 13000)
V13KgResumeDelay == 13000
\* handleState, ISO_PRINCIPLE_READY: the timeout that switches to the
\* synthesis stage and starts polling
V13IsoResumeDelay == 11000
\* switchToStage: the fade-out and the fade-in timeouts
V13FadeOutDelay == 600
V13FadeInDelay == 50

\* const stages
V13StageIds == StageIds \cup {"step-synthesis"}

\* the history record of a callback run: its kind, the status it handled or
\* the outcome of the request it awaited, the session id it used, the alert
\* it showed
V13Event(ev, status, sid, alert) ==
    [ ev |-> ev, status |-> status, sid |-> sid, alert |-> alert ]

\* submitButton: disabled, and which label its innerHTML shows
V13Button(disabled, label) == [ disabled |-> disabled, label |-> label ]

\* how a create_session request can end: a response with a sessionId, a
\* response without one, a response that is not OK, a rejected fetch
V13CreateOutcomes == {"session", "no_session_id", "not_ok", "throws"}

\* how a session_status request can end: a status of the contract, the
\* status ERROR, a response that is not OK, a rejected fetch
V13StatusOutcomes == {"ok", "error_status", "not_ok", "throws"}

\* a submit handler that throws only when the fetch itself rejects
v13_createFailsOnlyOnThrow(outcome) == outcome = "throws"

\* submit handler: the outcomes that end in its catch block
v13_createFails(outcome) == outcome # "session"

\* startPolling, the timers it leaves
v13_startPolling(ts) ==
    Append(clearInterval(ts, v13_pollingIntervalId),
           Timer("interval", V13PollInterval, "", "", ""))

\* switchToStage(nextStageId), the timer it arms
v13_switchToStage(ts, nextStageId, status) ==
    Append(ts, Timer("fade_out", V13FadeOutDelay, v13_currentStageId,
                     nextStageId, status))

\* handleState(data): what it does to the timers
v13_handleState(status) ==
    LET cleared == clearInterval(v13_timers, v13_pollingIntervalId)
    IN  CASE status = "AC_COMPLETE" ->
                Append(v13_switchToStage(cleared, "step-emotion-analysis", status),
                       Timer("ac_stage_two", V13AcStageOne, "", "", status))
          [] status = "KG_COMPLETE" ->
                Append(v13_switchToStage(cleared, "step-kg-result", status),
                       Timer("resume", V13KgResumeDelay, "", "", status))
          [] status = "ISO_PRINCIPLE_READY" ->
                Append(v13_switchToStage(cleared, "step-iso-principle", status),
                       Timer("iso_resume", V13IsoResumeDelay, "", "", status))
          [] status = "VIDEO_READY" ->
                v13_switchToStage(cleared, "step-video-player", status)
          [] OTHER -> v13_timers

\* the number of fetches awaiting their response
V13InFlight ==
    v13_inflight.create + SumTo(v13_inflight.status, MaxTherapySessions)

\* the progress of session sid after `steps` more statuses
V13Progress(sid, steps) ==
    IF v13_tasksStatus[sid] + steps > LastProgress THEN LastProgress
    ELSE v13_tasksStatus[sid] + steps

\* submitButton click handler, up to the fetch of create_session
V13SubmitClick(text) ==
    /\ ~v13_submitButton.disabled
    /\ IF text = ""
       THEN /\ v13_lastEvent' = V13Event("submit", "", v13_sessionId,
                                          "input_alert")
            /\ UNCHANGED << v13_sessionId, v13_pollingIntervalId,
                            v13_currentStageId, v13_submitButton, v13_timers,
                            v13_inflight, v13_pollsIssued, v13_tasksStatus,
                            v13_failed >>
       ELSE /\ V13InFlight < MaxInFlight
            /\ Len(v13_tasksStatus) + v13_inflight.create < MaxTherapySessions
            /\ v13_submitButton' = V13Button(TRUE, "analyzing")
            /\ v13_currentStageId' = "step-input"
            /\ v13_inflight' = [ v13_inflight EXCEPT !.create = @ + 1 ]
            /\ v13_lastEvent' = V13Event("submit", "", v13_sessionId, "none")
            /\ UNCHANGED << v13_sessionId, v13_pollingIntervalId, v13_timers,
                            v13_pollsIssued, v13_tasksStatus, v13_failed >>

\* submitButton click handler, after the await of create_session
V13CreateResponse(outcome) ==
    /\ v13_inflight.create > 0
    /\ v13_inflight' = [ v13_inflight EXCEPT !.create = @ - 1 ]
    /\ IF v13_createFails(outcome)
       THEN \* catch: alert, the button enabled with its start label
            /\ v13_sessionId' = IF outcome = "no_session_id" THEN 0
                                ELSE v13_sessionId
            /\ v13_submitButton' = V13Button(FALSE, "start")
            /\ v13_lastEvent' = V13Event("create_response", outcome,
                                          v13_sessionId', "connection_lost")
            /\ UNCHANGED << v13_pollingIntervalId, v13_timers, v13_tasksStatus >>
       ELSE /\ v13_tasksStatus' = Append(v13_tasksStatus, 0)
            /\ v13_sessionId' = Len(v13_tasksStatus) + 1
            /\ v13_timers' = v13_startPolling(v13_timers)
            /\ v13_pollingIntervalId' = 1
            /\ v13_lastEvent' = V13Event("create_response", outcome,
                                          v13_sessionId', "none")
            /\ UNCHANGED v13_submitButton
    /\ UNCHANGED << v13_currentStageId, v13_pollsIssued, v13_failed >>

\* the timers that are due, and the one the event loop runs first
V13Due == { i \in 1..Len(v13_timers) : v13_timers[i].r = 0 }
V13FirstDue == CHOOSE i \in V13Due : \A j \in V13Due : i <= j

\* the interval callback of startPolling, up to its fetch
V13PollTick ==
    /\ V13Due # {}
    /\ v13_timers[V13FirstDue].k = "interval"
    /\ LET rearmed == Append(RemoveAt(v13_timers, V13FirstDue),
                             Timer("interval", V13PollInterval, "", "", ""))
       IN  IF v13_sessionId = 0
           THEN \* if (!sessionId) { clearInterval(pollingIntervalId); return; }
                /\ v13_timers' = clearInterval(rearmed, v13_pollingIntervalId)
                /\ v13_lastEvent' = V13Event("poll_skipped", "", 0, "none")
                /\ UNCHANGED << v13_inflight, v13_pollsIssued >>
           ELSE /\ V13InFlight < MaxInFlight
                /\ v13_pollsIssued < MaxPolls
                /\ v13_timers' = rearmed
                /\ v13_inflight' =
                      [ v13_inflight EXCEPT !.status[v13_sessionId] = @ + 1 ]
                /\ v13_pollsIssued' = v13_pollsIssued + 1
                /\ v13_lastEvent' = V13Event("poll_request", "", v13_sessionId,
                                              "none")
    /\ UNCHANGED << v13_sessionId, v13_pollingIntervalId, v13_currentStageId,
                    v13_submitButton, v13_tasksStatus, v13_failed >>

\* the interval callback after its awaits: handleState(statusData), or the
\* catch block
V13StatusResponse(sid, outcome, steps) ==
    /\ v13_inflight.status[sid] > 0
    /\ sid \in 1..Len(v13_tasksStatus)
    /\ outcome # "ok" => steps = 0
    /\ v13_inflight' = [ v13_inflight EXCEPT !.status[sid] = @ - 1 ]
    /\ IF outcome = "ok"
       THEN LET status == StatusOfProgress(V13Progress(sid, steps))
            IN  /\ v13_tasksStatus' =
                      [ v13_tasksStatus EXCEPT ![sid] = V13Progress(sid, steps) ]
                /\ v13_timers' = v13_handleState(status)
                /\ v13_lastEvent' = V13Event("status_handled", status, sid,
                                              "none")
                /\ UNCHANGED << v13_submitButton, v13_failed >>
       ELSE \* catch: the interval cleared, alert, the button enabled
            /\ v13_timers' = clearInterval(v13_timers, v13_pollingIntervalId)
            /\ v13_submitButton' = V13Button(FALSE, "start")
            /\ v13_failed' = v13_failed \cup {sid}
            /\ v13_lastEvent' = V13Event("poll_failed", outcome, sid,
                                          "connection_lost")
            /\ UNCHANGED v13_tasksStatus
    /\ UNCHANGED << v13_sessionId, v13_pollingIntervalId, v13_currentStageId,
                    v13_pollsIssued >>

\* a setTimeout callback runs
V13TimeoutFires ==
    /\ V13Due # {}
    /\ v13_timers[V13FirstDue].k # "interval"
    /\ LET t == v13_timers[V13FirstDue]
           rest == RemoveAt(v13_timers, V13FirstDue)
       IN  /\ v13_lastEvent' = V13Event(t.k, t.status, v13_sessionId, "none")
           /\ CASE t.k = "fade_out" ->
                    /\ v13_timers' = Append(rest, Timer("fade_in",
                                        V13FadeInDelay, t.cur, t.next, t.status))
                    /\ UNCHANGED << v13_currentStageId, v13_pollingIntervalId >>
                [] t.k = "fade_in" ->
                    /\ v13_currentStageId' = t.next
                    /\ v13_timers' = rest
                    /\ UNCHANGED v13_pollingIntervalId
                [] t.k = "ac_stage_two" ->
                    /\ v13_timers' = Append(rest, Timer("resume",
                                        V13AcResumeDelay, "", "", t.status))
                    /\ UNCHANGED << v13_currentStageId, v13_pollingIntervalId >>
                [] t.k = "resume" ->
                    /\ v13_timers' = v13_startPolling(rest)
                    /\ v13_pollingIntervalId' = 1
                    /\ UNCHANGED v13_currentStageId
                [] t.k = "iso_resume" ->
                    \* switchToStage('step-synthesis'); startPolling();
                    /\ v13_timers' = Append(
                          clearInterval(v13_switchToStage(rest, "step-synthesis",
                                                          t.status),
                                        v13_pollingIntervalId),
                          Timer("interval", V13PollInterval, "", "", ""))
                    /\ v13_pollingIntervalId' = 1
                    /\ UNCHANGED v13_currentStageId
    /\ UNCHANGED << v13_sessionId, v13_submitButton, v13_inflight,
                    v13_pollsIssued, v13_tasksStatus, v13_failed >>

\* time passes until the next timer is due
V13Advance ==
    /\ v13_timers # << >>
    /\ V13Due = {}
    /\ LET d == CHOOSE d \in { v13_timers[i].r : i \in 1..Len(v13_timers) } :
                    \A i \in 1..Len(v13_timers) : d <= v13_timers[i].r
       IN  v13_timers' = [ i \in 1..Len(v13_timers) |->
                             [ v13_timers[i] EXCEPT !.r = @ - d ] ]
    /\ v13_lastEvent' = V13Event("time", "", v13_sessionId, "none")
    /\ UNCHANGED << v13_sessionId, v13_pollingIntervalId, v13_currentStageId,
                    v13_submitButton, v13_inflight, v13_pollsIssued,
                    v13_tasksStatus, v13_failed >>

\* restartButton click handler
V13RestartClick ==
    /\ v13_currentStageId' = "step-input"
    /\ v13_submitButton' = V13Button(FALSE, "start")
    /\ v13_timers' = clearInterval(v13_timers, v13_pollingIntervalId)
    /\ v13_pollingIntervalId' = 0
    /\ v13_sessionId' = 0
    /\ v13_lastEvent' = V13Event("restart", "", 0, "none")
    /\ UNCHANGED << v13_inflight, v13_pollsIssued, v13_tasksStatus, v13_failed >>

V13Init ==
    /\ v13_sessionId = 0
    /\ v13_pollingIntervalId = 0
    /\ v13_currentStageId = "step-input"
    /\ v13_submitButton = V13Button(FALSE, "start")
    /\ v13_timers = << >>
    /\ v13_inflight = NoRequests
    /\ v13_pollsIssued = 0
    /\ v13_tasksStatus = << >>
    /\ v13_failed = {}
    /\ v13_lastEvent = V13Event("load", "", 0, "none")

\* the steps of the V13 page
V13Next ==
    \/ /\ UNCHANGED notV13Vars
       /\ \E text \in {"", "sad"} : V13SubmitClick(text)
    \/ /\ UNCHANGED notV13Vars
       /\ \E outcome \in V13CreateOutcomes : V13CreateResponse(outcome)
    \/ /\ UNCHANGED notV13Vars
       /\ \E sid \in SessionIds, outcome \in V13StatusOutcomes,
             steps \in 0..LastProgress :
             V13StatusResponse(sid, outcome, steps)
    \/ /\ UNCHANGED notV13Vars
       /\ V13PollTick
    \/ /\ UNCHANGED notV13Vars
       /\ V13TimeoutFires
    \/ /\ UNCHANGED notV13Vars
       /\ V13Advance
    \/ /\ UNCHANGED notV13Vars
       /\ V13RestartClick

\* ---------------------------------- i18n: AC/frontend_deploy/js/i18n.js
\* how many calls the log keeps
I18nLogLen == 3

\* the languages of the interface
Languages == {"zh", "en"}

\* localStorage.getItem of an absent item
NoItem == "null"

\* what the page shows before any script has written to it
I18nUnset == "unset"

\* navigator.language: the primary subtag and the region
BrowserLanguages == { << "zh", "CN" >>, << "zh" >>, << "en", "US" >>,
                      << "fr", "FR" >> }

\* browserLang.startsWith('zh')
startsWithZh(browserLang) == browserLang[1] = "zh"

\* the keys data-i18n attributes carry: one with translations, one without
I18nKeys == {"app.subtitle", "app.unknown"}

\* UI_TRANSLATIONS[lang][key], "" where the table has no entry
UI_TRANSLATIONS(lang, key) ==
    CASE lang = "zh" /\ key = "app.subtitle" -> "qinggan liaoyu fenxi xitong"
      [] lang = "en" /\ key = "app.subtitle" ->
            "Emotional Healing Analysis System"
      [] OTHER -> ""

\* getTranslation(key, lang)
getTranslation(key, lang) ==
    IF lang \in Languages /\ UI_TRANSLATIONS(lang, key) # ""
    THEN UI_TRANSLATIONS(lang, key)
    ELSE key

\* one entry of the log
I18nCall(op, before, after) == [op |-> op, before |-> before, after |-> after]

\* the log with one more call, the oldest dropped beyond I18nLogLen
Logged(call) ==
    LET all == Append(i18n_log, call)
    IN  IF Len(all) > I18nLogLen THEN Tail(all) ELSE all

\* an applyLanguage that does not write localStorage
applyLanguageWithoutSave(lang) ==
    /\ currentLanguage' = lang
    /\ i18n_htmlLang' = IF lang = "zh" THEN "zh-CN" ELSE "en-US"
    /\ i18n_text' = getTranslation("app.subtitle", lang)
    /\ i18n_storage' = i18n_storage

\* applyLanguage(lang)
applyLanguage(lang) ==
    /\ currentLanguage' = lang
    /\ i18n_htmlLang' = IF lang = "zh" THEN "zh-CN" ELSE "en-US"
    /\ i18n_text' = getTranslation("app.subtitle", lang)
    /\ i18n_storage' = lang

\* updateLanguageToggle(): the label of the current language
updateLanguageToggle(lang) == IF lang = "zh" THEN "Zhong" ELSE "EN"

\* initI18n()
initI18n ==
    LET savedLanguage == i18n_storage
        lang == IF savedLanguage # NoItem /\ savedLanguage \in {"zh", "en"}
                THEN savedLanguage
                ELSE IF startsWithZh(i18n_browserLang) THEN "zh" ELSE "en"
    IN  /\ applyLanguage(lang)
        /\ i18n_toggle' = updateLanguageToggle(lang)
        /\ i18n_log' = Logged(I18nCall("initI18n", currentLanguage, lang))
        /\ UNCHANGED << i18n_browserLang, i18n_chosen >>

\* window.EmoHealI18n.apply(lang), lang one of 'zh' and 'en'
ApplyLanguageCall(lang) ==
    /\ applyLanguage(lang)
    /\ i18n_chosen' = lang
    /\ i18n_log' = Logged(I18nCall("applyLanguage", currentLanguage, lang))
    /\ UNCHANGED << i18n_browserLang, i18n_toggle >>

\* toggleLanguage()
toggleLanguage ==
    LET newLanguage == IF currentLanguage = "zh" THEN "en" ELSE "zh"
    IN  /\ applyLanguage(newLanguage)
        /\ i18n_toggle' = updateLanguageToggle(newLanguage)
        /\ i18n_chosen' = newLanguage
        /\ i18n_log' =
              Logged(I18nCall("toggleLanguage", currentLanguage, newLanguage))
        /\ UNCHANGED i18n_browserLang

\* the page is loaded again, in a browser whose language is browserLang:
\* the script starts over, localStorage stays
LoadPage(browserLang) ==
    /\ currentLanguage' = "zh"
    /\ i18n_browserLang' = browserLang
    /\ i18n_htmlLang' = I18nUnset
    /\ i18n_text' = I18nUnset
    /\ i18n_toggle' = I18nUnset
    /\ i18n_log' = Logged(I18nCall("load", currentLanguage, "zh"))
    /\ UNCHANGED << i18n_storage, i18n_chosen >>

I18nInit ==
    /\ currentLanguage = "zh"
    /\ i18n_storage = NoItem
    /\ i18n_browserLang = << "zh", "CN" >>
    /\ i18n_htmlLang = I18nUnset
    /\ i18n_text = I18nUnset
    /\ i18n_toggle = I18nUnset
    /\ i18n_chosen = NoItem
    /\ i18n_log = << >>

\* the language calls of a page
I18nNext ==
    \/ /\ UNCHANGED notI18nVars
       /\ initI18n
    \/ /\ UNCHANGED notI18nVars
       /\ \E lang \in Languages : ApplyLanguageCall(lang)
    \/ /\ UNCHANGED notI18nVars
       /\ toggleLanguage
    \/ /\ UNCHANGED notI18nVars
       /\ \E browserLang \in BrowserLanguages : LoadPage(browserLang)

\* ------------------------------------ throttle: AC/debug/REPAIR_SUMMARY.md
\* how long the listener is observed, in ms
MaxThrottleTime == 40

\* how late a setTimeout callback may run, in ms
MaxTimerLate == 2

\* throttle(handleScroll, 16)
ThrottleLimit == 16

\* one call of the wrapper: when, whether func ran, when func ran before
ThrottleCall(t, ran, prevRun) == [t |-> t, ran |-> ran, prevRun |-> prevRun]

\* no call yet
NoThrottleCall == ThrottleCall(-1, FALSE, -1)

\* the function throttle returns, called by a scroll event
ThrottledCall ==
    /\ IF ~inThrottle
       THEN /\ thr_lastRun' = thr_now
            /\ thr_runCount' = thr_runCount + 1
            /\ inThrottle' = TRUE
            /\ thr_timers' = Append(thr_timers, ThrottleLimit)
       ELSE UNCHANGED << thr_lastRun, thr_runCount, inThrottle, thr_timers >>
    /\ thr_lastCall' = ThrottleCall(thr_now, ~inThrottle, thr_lastRun)
    /\ UNCHANGED thr_now

\* the setTimeout callback: () => inThrottle = false
ThrottleTimeout ==
    /\ thr_timers # << >>
    /\ Head(thr_timers) <= 0
    /\ inThrottle' = FALSE
    /\ thr_timers' = Tail(thr_timers)
    /\ UNCHANGED << thr_now, thr_lastRun, thr_runCount, thr_lastCall >>

\* one ms passes; a due callback runs at most MaxTimerLate ms late
ThrottleTick ==
    /\ thr_now < MaxThrottleTime
    /\ \A i \in 1..Len(thr_timers) : thr_timers[i] > -MaxTimerLate
    /\ thr_now' = thr_now + 1
    /\ thr_timers' = [i \in 1..Len(thr_timers) |-> thr_timers[i] - 1]
    /\ UNCHANGED << inThrottle, thr_lastRun, thr_runCount, thr_lastCall >>

ThrottleInit ==
    /\ inThrottle = FALSE
    /\ thr_timers = << >>
    /\ thr_now = 0
    /\ thr_lastRun = -1
    /\ thr_runCount = 0
    /\ thr_lastCall = NoThrottleCall

\* the steps of the throttled scroll listener
ThrottleNext ==
    \/ /\ UNCHANGED notThrottleVars
       /\ ThrottledCall
    \/ /\ UNCHANGED notThrottleVars
       /\ ThrottleTimeout
    \/ /\ UNCHANGED notThrottleVars
       /\ ThrottleTick

Init == StudyInit /\ SeqInit /\ V13Init /\ I18nInit /\ ThrottleInit

\* the language calls, the other pages left at their initial state
I18nSpec == Init /\ [][I18nNext]_vars

\* the throttled listener, the other pages left at their initial state
ThrottleSpec == Init /\ [][ThrottleNext]_vars

\* the V13 sequencer, the other pages left at their initial state
V13Spec == Init /\ [][V13Next]_vars

\* the therapy sequencer, the study flow left at its initial state
Spec == Init /\ [][SeqNext]_vars

\* the study flow, the therapy sequencer left at its initial state
StudySpec == Init /\ [][StudyNext]_vars

\* ---------------------------------------------- claims on StudyFlowManager
\* the participant form was saved
InfoGiven == participantData.participantInfo # EmptyInfo

\* the consent form was saved
ConsentGiven == participantData.consentData.timestamp # UNDEF

\* C2 as stated: in the form-driven flow consent is completed before the
\* demographics, so a record with demographics also has the consent.
C2_ConsentBeforeDemographics == formDriven /\ InfoGiven => ConsentGiven

\* C2 amended: the participant-info step comes before the consent step; in
\* the form-driven flow a record with the consent also has the demographics.
C2_DemographicsBeforeConsent == formDriven /\ ConsentGiven => InfoGiven

C2_Witness == formDriven /\ ConsentGiven /\ InfoGiven /\ currentStep = "therapy"

\* C3: starting at 'portal' and advancing only by form submissions, therapy
\* completion and one-step proceedToStep calls, currentStep takes the values
\* portal, participant_info, consent_form, therapy, questionnaire, thank_you
\* in exactly this order.
C3_StepsInOrder ==
    ordered =>
        /\ Len(visited) <= 6
        /\ \A i \in 1..Len(visited) :
              visited[i] = << "portal", "participant_info", "consent_form",
                              "therapy", "questionnaire", "thank_you" >>[i]

C3_Witness == ordered /\ Len(visited) = 6 /\ currentStep = "thank_you"

\* C4 as stated: a proceedToStep(target) call succeeds only if target is
\* the current step or the step right after it; any other target is
\* rejected with the 'complete all steps in order' warning.
C4_OnlyCurrentOrNextStep ==
    [][ lastOp'.target # "" =>
          IF OneStep(currentStep, lastOp'.target)
          THEN TRUE
          ELSE /\ ~lastOp'.ok
               /\ currentStep' = currentStep
               /\ alertShown' = "complete_all_steps_in_order" ]_vars

\* C5: a consent submission advances to 'therapy' and records consentData
\* only if every consent checkbox is checked and every required field is
\* non-blank; otherwise nothing is saved to participantData or localStorage
\* and currentStep is unchanged.
C5_ConsentValidated ==
    [][ lastOp'.op = "submit" /\ lastOp'.arg = "consent"
        /\ ~(lastOp'.filled /\ lastOp'.checked) =>
          /\ participantData' = participantData
          /\ lsParticipantData' = lsParticipantData
          /\ lsStudyStep' = lsStudyStep
          /\ currentStep' = currentStep ]_vars

C5_Witness ==
    /\ lastOp.op = "submit" /\ lastOp.arg = "consent"
    /\ lastOp.filled /\ ~lastOp.checked
    /\ currentStep = "consent_form"
    /\ ~ConsentGiven

\* the participantInfo objects a record can hold
InfoValues == [FormFields("participant_info") -> FieldValues \cup {UNDEF}]

\* C9: two participant records that differ only in participantInfo fields
\* other than ageGroup, gender and digitalHealthExperience export the same
\* data, and what is sent to the server or downloaded is that export.
C9_ExportAnonymized ==
    /\ \A info \in InfoValues :
          (\A f \in {"ageGroup", "gender", "digitalHealthExperience"} :
                info[f] = participantData.participantInfo[f])
          => prepareExportData([participantData EXCEPT !.participantInfo = info])
             = prepareExportData(participantData)
    /\ \A out \in lastSubmitted \cup lastDownloaded :
          /\ out = prepareExportData(participantData)
          /\ DOMAIN out.participantInfo
                = {"ageGroup", "gender", "digitalHealthExperience"}

C9_Witness ==
    /\ lastSubmitted # {} /\ lastDownloaded # {}
    /\ participantData.participantInfo["email"] = "a"

\* C10: after resetStudy neither item is in localStorage, currentStep is
\* 'portal' and participantData is a fresh record: empty participantInfo,
\* consentData, therapyData and questionnaireData, completed false.
C10_ResetDeletesAll ==
    lastOp.op = "reset" /\ lastOp.ok =>
        /\ lsStudyStep = {} /\ lsParticipantData = {}
        /\ currentStep = "portal"
        /\ participantData.participantInfo = EmptyInfo
        /\ participantData.consentData = EmptyConsent
        /\ participantData.therapyData = EmptyTherapy
        /\ participantData.questionnaireData = EmptyQuestionnaire
        /\ participantData.completed = FALSE
        /\ participantData.endTime = UNDEF

C10_Witness == lastOp.op = "reset" /\ lastOp.ok /\ lastOp.arg = "had_data"

\* ------------------------------------------- claims on the therapy sequencer
\* an animation handleState started is running: its resume timer, or the
\* stage-one timeout that arms it, is pending
AnimationRunning ==
    \E i \in 1..Len(timers) : timers[i].k \in {"ac_stage_two", "resume"}

\* C1: polling and animation run in lockstep: while an animation that
\* handleState started for AC_COMPLETE, KG_COMPLETE or ISO_PRINCIPLE_READY
\* has not reached its resume timer, no session_status request is issued
\* and no status response is handled.
C1_Lockstep ==
    [][AnimationRunning =>
         lastEvent'.ev \notin {"poll_request", "status_handled"}]_vars

\* C6: VIDEO_READY is the end of the flow: once handleState has handled
\* VIDEO_READY, no session_status request is issued until the next submit.
C6_VideoReadyEndsPolling ==
    [][videoReadyHandled => lastEvent'.ev # "poll_request"]_vars

\* C7: when the stage transition handleState started for a status
\* completes, currentStageId is the stage of that status:
\* step-emotion-analysis for AC_COMPLETE, step-kg-result for KG_COMPLETE,
\* step-iso-principle for ISO_PRINCIPLE_READY, step-video-player for
\* VIDEO_READY.
C7_StageOfStatus ==
    lastEvent.ev = "fade_in" =>
        /\ lastEvent.status = "AC_COMPLETE" =>
              currentStageId = "step-emotion-analysis"
        /\ lastEvent.status = "KG_COMPLETE" =>
              currentStageId = "step-kg-result"
        /\ lastEvent.status = "ISO_PRINCIPLE_READY" =>
              currentStageId = "step-iso-principle"
        /\ lastEvent.status = "VIDEO_READY" =>
              currentStageId = "step-video-player"

\* the transition to the video player, the last of the four, has completed
C7_Witness ==
    /\ lastEvent.ev = "fade_in"
    /\ lastEvent.status = "VIDEO_READY"
    /\ currentStageId = "step-video-player"
    /\ tasksStatus # << >>

\* C8: on KG_COMPLETE the front end shows result.kgResult: when the
\* animation of KG_COMPLETE has ended, #kg-title holds kgResult.title and
\* #kg-details holds, in order, one element for every entry of
\* kgResult.details.
C8_KgResultShown ==
    (lastEvent.ev = "resume" /\ lastEvent.status = "KG_COMPLETE") =>
        /\ kgTitle = kgResult.title
        /\ kgDetails = kgResult.details

\* C11: the restart handler stops polling and clears the session: right
\* after it sessionId is null and no interval is live, and from then until
\* the next submit (the submit button stays enabled) no session_status
\* request is issued, also when a resume timer was pending at the restart.
C11_RestartStopsPolling ==
    [][ /\ lastEvent'.ev = "restart" =>
              /\ sessionId' = 0
              /\ pollingIntervalId' = 0
              /\ \A i \in 1..Len(timers') : timers'[i].k # "interval"
        /\ ~submitDisabled => lastEvent'.ev # "poll_request" ]_vars

\* C12: within one session handleState starts the stage animation of a
\* status at most once: every answer of the backend is handled, so a
\* handled status that starts an animation must be one the session's task
\* has newly reached, never the status of the answer before.
C12_AnimationAtMostOnce ==
    [][ /\ lastEvent'.ev = "status_handled"
        /\ lastEvent'.status \in AnimatedStatuses \cup {"VIDEO_READY"}
        /\ lastEvent'.sid \in 1..Len(tasksStatus)
        => tasksStatus'[lastEvent'.sid] > tasksStatus[lastEvent'.sid] ]_vars

\* a timeout of switchToStage is pending
TransitionPending ==
    \E i \in 1..Len(timers) : timers[i].k \in {"fade_out", "fade_in"}

\* C13: whenever no stage-transition timer is pending, exactly one stage
\* card is visible (does not carry d-none) and it is the card of
\* currentStageId.
C13_OneVisibleCard ==
    ~TransitionPending => StageIds \ hiddenCards = {currentStageId}

\* C16: a status response whose status is none of AC_COMPLETE,
\* KG_COMPLETE, ISO_PRINCIPLE_READY, VIDEO_READY changes nothing: the
\* stage, sessionId, the polling interval and every other timer are as
\* before, so polling continues at its 2-second interval.
C16_OtherStatusChangesNothing ==
    [][ /\ lastEvent'.ev = "status_handled"
        /\ lastEvent'.status \notin AnimatedStatuses \cup {"VIDEO_READY"}
        => UNCHANGED << currentStageId, hiddenCards, sessionId,
                        pollingIntervalId, timers, submitDisabled, kgTitle,
                        kgDetails, video >> ]_vars

\* a PENDING answer has been handled while the interval is live
C16_Witness ==
    /\ lastEvent.ev = "status_handled"
    /\ lastEvent.status = "PENDING"
    /\ sessionId # 0
    /\ \E i \in 1..Len(timers) :
          timers[i].k = "interval" /\ timers[i].r <= PollInterval

\* ---------------------------------------------- claims on the V13 sequencer
\* C14: if session creation fails (the request throws, the response is not
\* OK or carries no sessionId), the submit button is enabled again with its
\* start label, the connection-lost alert is shown and polling is not
\* started: no interval is armed and no request is issued.
C14_CreateFailureHandled ==
    [][ /\ v13_lastEvent'.ev = "create_response"
        /\ v13_lastEvent'.status \in {"no_session_id", "not_ok", "throws"}
        =>
          /\ v13_submitButton' = V13Button(FALSE, "start")
          /\ v13_lastEvent'.alert = "connection_lost"
          /\ v13_timers' = v13_timers
          /\ v13_pollingIntervalId' = v13_pollingIntervalId
          /\ v13_inflight'.status = v13_inflight.status ]_vars

\* a submit whose response carried no sessionId has been handled
C14_Witness ==
    /\ v13_lastEvent.ev = "create_response"
    /\ v13_lastEvent.status = "no_session_id"
    /\ ~v13_submitButton.disabled
    /\ v13_timers = << >>

\* C15: after a polling tick failed (request error, non-OK response or
\* status ERROR) the interval is cleared and the submit button enabled, and
\* no further session_status request is issued for that session.
C15_PollFailureStopsPolling ==
    [][ /\ v13_lastEvent'.ev = "poll_failed" =>
              /\ \A i \in 1..Len(v13_timers') : v13_timers'[i].k # "interval"
              /\ ~v13_submitButton'.disabled
        /\ v13_lastEvent'.ev = "poll_request" =>
              v13_lastEvent'.sid \notin v13_failed ]_vars

\* ------------------------------------------------------- claims on i18n
\* C17: the interface language is persisted: after applyLanguage(lang) or
\* toggleLanguage the localStorage item 'emoheal-language' equals the
\* current language; a later initI18n makes the language chosen last
\* current again; and two consecutive toggleLanguage calls return to the
\* language that was current before them.
C17_LanguagePersisted ==
    LET n == Len(i18n_log)
    IN  /\ n >= 1 /\ i18n_log[n].op \in {"applyLanguage", "toggleLanguage"}
           => /\ i18n_storage = currentLanguage
              /\ currentLanguage = i18n_log[n].after
        /\ n >= 1 /\ i18n_log[n].op = "initI18n" /\ i18n_chosen # NoItem
           => /\ currentLanguage = i18n_chosen
              /\ i18n_storage = i18n_chosen
        /\ /\ n >= 2
           /\ i18n_log[n].op = "toggleLanguage"
           /\ i18n_log[n - 1].op = "toggleLanguage"
           => currentLanguage = i18n_log[n - 1].before

\* English was chosen by a toggle, the page was loaded again in a Chinese
\* browser (the script starts over with 'zh'), and initI18n has made
\* English current again
C17_Witness ==
    /\ Len(i18n_log) = I18nLogLen
    /\ i18n_log[I18nLogLen - 2].op = "toggleLanguage"
    /\ i18n_log[I18nLogLen - 1].op = "load"
    /\ i18n_log[I18nLogLen].op = "initI18n"
    /\ i18n_log[I18nLogLen].before = "zh"
    /\ startsWithZh(i18n_browserLang)
    /\ i18n_chosen = "en"
    /\ currentLanguage = "en"

\* --------------------------------------------------- claims on throttle
\* C18: the wrapped function runs on the first call; a call less than limit
\* ms after a call that ran is dropped; the first call limit ms or more
\* after the call that ran last runs immediately; and the function runs
\* only in a call, at the time of the call (a dropped call never runs
\* later).
C18_ThrottleTiming ==
    [][ /\ thr_lastCall' # thr_lastCall =>
              /\ thr_lastCall.t = -1 => thr_lastCall'.ran
              /\ /\ thr_lastCall'.prevRun >= 0
                 /\ thr_lastCall'.t - thr_lastCall'.prevRun < ThrottleLimit
                 => ~thr_lastCall'.ran
              /\ /\ thr_lastCall'.prevRun >= 0
                 /\ thr_lastCall'.t - thr_lastCall'.prevRun >= ThrottleLimit
                 => thr_lastCall'.ran
        /\ thr_runCount' # thr_runCount =>
              /\ thr_lastCall'.ran
              /\ thr_lastCall'.t = thr_now
              /\ thr_lastRun' = thr_now
              /\ thr_runCount' = thr_runCount + 1 ]_vars

====
